---- MODULE Spec2Model ----
(***************************************************************************)
(* Model of apps/playwright-service-ts/api.ts: the browser session         *)
(* (initializeBrowser / shutdownBrowser and the three health flags), the   *)
(* readiness probe and the /scrape handler.                                *)
(*                                                                         *)
(* Node runs the handlers on one thread: a handler runs without            *)
(* interruption from one `await` of an engine call to the next.  Each      *)
(* action below is one such run: it starts when a request arrives or an    *)
(* awaited engine call settles (resolves or rejects, chosen here           *)
(* nondeterministically) and ends at the next awaited engine call or at    *)
(* the handler's return.  The continuation of `await initializeBrowser()`  *)
(* runs in the microtask drain of the run that settles the promise, so it  *)
(* is part of that run.                                                    *)
(***************************************************************************)
EXTENDS Integers, Sequences, FiniteSets, TLC

\* ---------------------------------------------------------------- bounds
MaxReqs == 1
MaxProbes == 2

Reqs == 1..MaxReqs
\* callers of initializeBrowser: 0 is the app.listen callback, r > 0 the
\* /scrape request r, -p the p-th readiness probe
ListenCaller == 0
Callers == ((0 - MaxProbes)..(0 - 1)) \cup {ListenCaller} \cup Reqs

\* ------------------------------------------------------------ URL strings
NoUrl == <<"<undefined>">>
EmptyUrl == <<>>
Urls ==
  { NoUrl, EmptyUrl, <<"/", "s">>, <<"1", ":", "s">>, <<"w", "s", ":", "/", "/">>,
    <<"w", "s", ":", "/", "/", "s">> }

IsAlpha(c) == c \in {"w", "s"}
IsDigit(c) == c \in {"1"}
IsSchemeChar(c) == IsAlpha(c) \/ IsDigit(c) \/ c \in {"+", "-", "."}
SpecialSchemes == { <<"w", "s">>, <<"w", "s", "s">> }

\* position of the ":" that ends a well-formed scheme, 0 when there is none
SchemeEnd(s) ==
  LET colons == { i \in 1..Len(s) : s[i] = ":" }
  IN  IF colons = {} THEN 0
      ELSE LET k == CHOOSE i \in colons : \A j \in colons : i <= j
           IN  IF k > 1 /\ IsAlpha(s[1]) /\ \A j \in 1..(k - 1) : IsSchemeChar(s[j])
               THEN k ELSE 0

RECURSIVE SkipSlashes(_)
SkipSlashes(s) ==
  IF s # <<>> /\ Head(s) \in {"/", "\\"} THEN SkipSlashes(Tail(s)) ELSE s

\* the authority of a special-scheme URL: what precedes the first "/"
Authority(s) ==
  LET ends == { i \in 1..Len(s) : s[i] \in {"/", "?", "#"} }
  IN  IF ends = {} THEN s
      ELSE SubSeq(s, 1, (CHOOSE i \in ends : \A j \in ends : i <= j) - 1)

ValidAuthority(a) ==
  LET colons == { i \in 1..Len(a) : a[i] = ":" }
  IN  IF colons = {} THEN a # <<>>
      ELSE LET k == CHOOSE i \in colons : \A j \in colons : i <= j
           IN  k > 1 /\ \A j \in (k + 1)..Len(a) : IsDigit(a[j])

\* new URL(urlString) without a base: succeeds iff the string has a scheme
\* and, for a special scheme, a non-empty host
UrlParses(s) ==
  LET k == SchemeEnd(s)
  IN  /\ k > 0
      /\ SubSeq(s, 1, k - 1) \in SpecialSchemes =>
           ValidAuthority(Authority(SkipSlashes(SubSeq(s, k + 1, Len(s)))))

\* lines 139-146 (Any: the faulty variant that accepts every string)
isValidUrlAny(urlString) == TRUE
isValidUrl(urlString) == UrlParses(urlString)

\* `!url`
UrlMissing(url) == url = NoUrl \/ url = EmptyUrl

\* ------------------------------------------------------------------ state
VARIABLES
  BLOCK_MEDIA,               \* the environment's flag, fixed at start
  browser, context,          \* 0 (undefined) or the id of the handle
  browserInitialized, browserInitError, initializationInProgress,
  init,                      \* per caller: its initializeBrowser() call
  launchCount,               \* chromium.launch() calls made so far
  ctxEng,                    \* per browser.newContext() call: the engine it was made on
  openEngines,               \* launched engine processes not yet closed
  openContexts,              \* contexts created and not yet closed
  mediaRouted, allRouted,    \* contexts with the media / the '**/*' handler
  listening,                 \* the app.listen callback has run
  probe,                     \* the last readiness probe: what it read and answered
  req,                       \* per /scrape request
  routed,                    \* the last request of a page the handlers decided
  sd                         \* the SIGINT handler's shutdownBrowser() call

vars == << BLOCK_MEDIA, browser, context, browserInitialized, browserInitError,
           initializationInProgress, init, launchCount, ctxEng, openEngines,
           openContexts, mediaRouted, allRouted, listening, probe, req, routed,
           sd >>

session == << browser, context, browserInitialized, browserInitError,
              initializationInProgress >>
engine == << launchCount, ctxEng, openEngines, openContexts, mediaRouted, allRouted >>

NoError == "null"
InitErrors == {"launch failed", "setup failed"}

IdleInit == [pc |-> "idle", eng |-> 0, ctx |-> 0, calls |-> 0, outcome |-> "none"]
NoProbe == [code |-> 0, text |-> "none", saw |-> [initialized |-> FALSE, error |-> NoError,
                                                   inProgress |-> FALSE]]
IdleReq ==
  [pc |-> "idle", url |-> NoUrl, headers |-> FALSE, selector |-> FALSE,
   waitUntil |-> "none", navs |-> <<>>, fail1 |-> "none", fail2 |-> "none", at |-> "none",
   result |-> [kind |-> "none"], pending |-> 0,
   page |-> "none", pageCtx |-> 0,
   code |-> 0, responses |-> 0, body |-> [kind |-> "none"]]

NoRoute == [ctx |-> 0, host |-> <<>>, ext |-> "none", decision |-> "none"]

Init ==
  /\ BLOCK_MEDIA \in BOOLEAN
  /\ browser = 0 /\ context = 0
  /\ browserInitialized = FALSE
  /\ browserInitError = NoError
  /\ initializationInProgress = FALSE
  /\ init = [c \in Callers |-> IdleInit]
  /\ launchCount = 0 /\ ctxEng = <<>>
  /\ openEngines = {} /\ openContexts = {}
  /\ mediaRouted = {} /\ allRouted = {}
  /\ listening = FALSE
  /\ probe = NoProbe
  /\ req = [r \in Reqs |-> IdleReq]
  /\ routed = NoRoute
  /\ sd = [pc |-> "idle", ctx |-> 0, eng |-> 0, ctxCloseFailed |-> FALSE,
           browserCloseCalled |-> FALSE]

\* ------------------------------------------------------ initializeBrowser
\* line 55: the single-flight test (Off: the faulty variant without the test)
AlreadyInitializingOff == FALSE
AlreadyInitializing == initializationInProgress

\* the flags as records [initialized, error, inProgress]
Flags == [initialized |-> browserInitialized, error |-> browserInitError,
          inProgress |-> initializationInProgress]

\* lines 60-61 (KeepError: the faulty variant that forgets line 61)
FlagsOnStartKeepError(f) == [f EXCEPT !.inProgress = TRUE]
FlagsOnStart(f) == [f EXCEPT !.inProgress = TRUE, !.error = NoError]

\* lines 119, 126: the try block ran to its end, then finally
\* (NoFinally: the faulty variant without line 126)
FlagsOnSuccessNoFinally(f) == [f EXCEPT !.initialized = TRUE]
FlagsOnSuccess(f) == [f EXCEPT !.initialized = TRUE, !.inProgress = FALSE]

\* lines 121-127: catch, then finally
FlagsOnCatch(f, error) ==
  [f EXCEPT !.error = error, !.initialized = FALSE, !.inProgress = FALSE]

SetFlags(f) ==
  /\ browserInitialized' = f.initialized
  /\ browserInitError' = f.error
  /\ initializationInProgress' = f.inProgress

\* the try block catches whatever a step throws (line 121): the call returns
\* (Rethrow: the faulty variant whose failing step is outside the try)
CaughtOutcomeRethrow == "threw"
CaughtOutcome == "returned"

\* lines 53-65 run by caller c up to `await chromium.launch(...)`, when the
\* single-flight test lets it pass
StartInitialize(c) ==
  /\ SetFlags(FlagsOnStart(Flags))
  /\ launchCount' = launchCount + 1
  /\ init' = [init EXCEPT ![c] = [pc |-> "launch", eng |-> launchCount + 1, ctx |-> 0,
                                  calls |-> init[c].calls + 1, outcome |-> "none"]]

\* lines 55-58: the call returns at once
SkipInitialize(c) ==
  /\ UNCHANGED << browserInitialized, browserInitError, initializationInProgress,
                  launchCount >>
  /\ init' = [init EXCEPT ![c] = [pc |-> "skipped", eng |-> 0, ctx |-> 0,
                                  calls |-> init[c].calls + 1, outcome |-> "returned"]]

Initialize(c) ==
  IF AlreadyInitializing THEN SkipInitialize(c) ELSE StartInitialize(c)

\* ---------------------------------------------------------------- /scrape
\* res.status(code).json(body), then the handler returns
Respond(q, code, body) ==
  [q EXCEPT !.pc = "done", !.code = code, !.responses = @ + 1, !.body = body]

\* line 273: the handler calls context.newPage() on the context of that moment
CallNewPage(q, ctx) == [q EXCEPT !.pc = "newPage", !.pageCtx = ctx]

\* lines 258-270: the handler once its `await initializeBrowser()` has settled
\* (NoRecheck: the faulty variant without the test of line 259)
AfterInitNoRecheck(q, outcome, initialized, error, ctx) == CallNewPage(q, ctx)
AfterInit(q, outcome, initialized, error, ctx) ==
  IF outcome = "threw"
  THEN Respond(q, 500, [kind |-> "Browser initialization failed", details |-> "thrown"])
  ELSE IF ~initialized
  THEN Respond(q, 500, [kind |-> "Browser initialization failed",
                        details |-> IF error # NoError THEN error ELSE "Unknown error"])
  ELSE CallNewPage(q, ctx)

\* an initializeBrowser() call of caller c returns (or throws) with flags f;
\* a /scrape handler awaiting it goes on in the same run
Complete(c, outcome, f, ctx) ==
  /\ SetFlags(f)
  /\ init' = [init EXCEPT ![c].pc = "done", ![c].outcome = outcome,
                           ![c].eng = 0, ![c].ctx = 0]
  /\ req' = IF c \in Reqs
            THEN [req EXCEPT ![c] = AfterInit(req[c], outcome, f.initialized, f.error, ctx)]
            ELSE req

Running == sd.pc # "exited"

\* line 65 settles
LaunchDone(c) ==
  /\ Running /\ init[c].pc = "launch"
  /\ \/ /\ browser' = init[c].eng
        /\ openEngines' = openEngines \cup {init[c].eng}
        \* line 99: browser.newContext(...) is called on the engine just launched
        /\ ctxEng' = Append(ctxEng, init[c].eng)
        /\ init' = [init EXCEPT ![c].pc = "newContext", ![c].ctx = Len(ctxEng) + 1]
        /\ UNCHANGED << context, browserInitialized, browserInitError,
                        initializationInProgress, req >>
     \/ /\ Complete(c, CaughtOutcome, FlagsOnCatch(Flags, "launch failed"), context)
        /\ UNCHANGED << browser, context, openEngines, ctxEng >>
  /\ UNCHANGED << BLOCK_MEDIA, routed, launchCount, openContexts, mediaRouted, allRouted,
                  listening, probe, sd >>

\* line 99 settles
NewContextDone(c) ==
  /\ Running /\ init[c].pc = "newContext"
  /\ \/ /\ context' = init[c].ctx
        /\ openContexts' = openContexts \cup {init[c].ctx}
        \* line 102 or line 108: the first context.route(...) call
        /\ init' = [init EXCEPT ![c].pc = IF BLOCK_MEDIA THEN "routeMedia" ELSE "routeAll"]
        /\ UNCHANGED << browserInitialized, browserInitError, initializationInProgress, req >>
     \/ /\ Complete(c, CaughtOutcome, FlagsOnCatch(Flags, "setup failed"), context)
        /\ UNCHANGED << context, openContexts >>
  /\ UNCHANGED << BLOCK_MEDIA, routed, browser, launchCount, ctxEng, openEngines, mediaRouted,
                  allRouted, listening, probe, sd >>

\* line 102 settles
RouteMediaDone(c) ==
  /\ Running /\ init[c].pc = "routeMedia"
  /\ \/ /\ mediaRouted' = mediaRouted \cup {init[c].ctx}
        /\ init' = [init EXCEPT ![c].pc = "routeAll"]
        /\ UNCHANGED << browserInitialized, browserInitError, initializationInProgress, req >>
     \/ /\ Complete(c, CaughtOutcome, FlagsOnCatch(Flags, "setup failed"), context)
        /\ UNCHANGED mediaRouted
  /\ UNCHANGED << BLOCK_MEDIA, routed, browser, context, launchCount, ctxEng, openEngines,
                  openContexts, allRouted, listening, probe, sd >>

\* line 108 settles
RouteAllDone(c) ==
  /\ Running /\ init[c].pc = "routeAll"
  /\ \/ /\ allRouted' = allRouted \cup {init[c].ctx}
        /\ Complete(c, "returned", FlagsOnSuccess(Flags), context)
     \/ /\ Complete(c, CaughtOutcome, FlagsOnCatch(Flags, "setup failed"), context)
        /\ UNCHANGED allRouted
  /\ UNCHANGED << BLOCK_MEDIA, routed, browser, context, launchCount, ctxEng, openEngines,
                  openContexts, mediaRouted, listening, probe, sd >>

\* lines 313-317: the server listens and starts the first initialization
Listen ==
  /\ ~listening /\ Running
  /\ listening' = TRUE
  /\ Initialize(ListenCaller)
  /\ UNCHANGED << BLOCK_MEDIA, routed, browser, context, ctxEng, openEngines, openContexts,
                  mediaRouted, allRouted, probe, req, sd >>

\* ------------------------------------------------------- /health/readiness
\* lines 188-229: the answer, from the flags the probe reads
ReadinessAnswer(f) ==
  IF f.initialized THEN [code |-> 200, text |-> "ready"]
  ELSE IF f.error # NoError THEN [code |-> 503, text |-> f.error]
  ELSE IF f.inProgress THEN [code |-> 503, text |-> "Browser initialization in progress"]
  ELSE IF ~f.inProgress /\ ~f.initialized
  THEN [code |-> 503, text |-> "Browser initialization started"]
  ELSE [code |-> 503, text |-> "Unknown state"]

\* line 213 is reached exactly when the answer is 'initialization started'
ProbeStartsInit(f) == ReadinessAnswer(f).text = "Browser initialization started"

\* the caller id of the next initializeBrowser() call made by a probe
NextProbeCaller == 0 - (Cardinality({ c \in Callers : c < 0 /\ init[c].pc # "idle" }) + 1)

\* lines 186-230: a probe arrives and is answered in the same run
Readiness ==
  /\ listening /\ Running
  /\ ProbeStartsInit(Flags) => NextProbeCaller \in Callers
  /\ probe' = [code |-> ReadinessAnswer(Flags).code, text |-> ReadinessAnswer(Flags).text,
               saw |-> Flags]
  /\ IF ProbeStartsInit(Flags)
     THEN Initialize(NextProbeCaller)
     ELSE UNCHANGED << browserInitialized, browserInitError, initializationInProgress,
                       init, launchCount >>
  /\ UNCHANGED << BLOCK_MEDIA, routed, browser, context, ctxEng, openEngines, openContexts,
                  mediaRouted, allRouted, listening, req, sd >>

\* ---------------------------------------------------------------- /scrape
\* line 255 (Always: the faulty variant that initializes on every request)
NeedsInitAlways == TRUE
NeedsInit == browser = 0 \/ context = 0 \/ ~browserInitialized

\* lines 232-273: the request arrives with its body; the handler runs to its
\* first await or to its response
ScrapeReceive(r, url, headers, selector) ==
  /\ listening /\ Running
  /\ req[r].pc = "idle"
  \* requests are numbered in their order of arrival
  /\ \A o \in Reqs : o < r => req[o].pc # "idle"
  /\ LET q == [req[r] EXCEPT !.url = url, !.headers = headers, !.selector = selector]
     IN  IF UrlMissing(url)
         THEN /\ req' = [req EXCEPT ![r] = Respond(q, 400, [kind |-> "URL is required"])]
              /\ UNCHANGED << browserInitialized, browserInitError,
                              initializationInProgress, init, launchCount >>
         ELSE IF ~isValidUrl(url)
         THEN /\ req' = [req EXCEPT ![r] = Respond(q, 400, [kind |-> "Invalid URL"])]
              /\ UNCHANGED << browserInitialized, browserInitError,
                              initializationInProgress, init, launchCount >>
         ELSE IF NeedsInit
         THEN /\ Initialize(r)
              /\ req' = [req EXCEPT ![r] =
                           IF AlreadyInitializing
                           THEN AfterInit(q, "returned", browserInitialized,
                                          browserInitError, context)
                           ELSE [q EXCEPT !.pc = "init"]]
         ELSE /\ req' = [req EXCEPT ![r] = CallNewPage(q, context)]
              /\ UNCHANGED << browserInitialized, browserInitError,
                              initializationInProgress, init, launchCount >>
  /\ UNCHANGED << BLOCK_MEDIA, routed, browser, context, ctxEng, openEngines, openContexts,
                  mediaRouted, allRouted, listening, probe, sd >>

\* lines 284 / 289 with line 150: scrapePage is called and page.goto awaited
StartStrategy(q, waitUntil) ==
  [q EXCEPT !.pc = "goto", !.waitUntil = waitUntil, !.navs = Append(@, waitUntil)]

\* the handler's promise rejects outside every try: no response is written
Reject(q, call) == [q EXCEPT !.pc = "rejected", !.at = call]

\* lines 285-293: scrapePage threw at `step` (NoClose: the faulty variant
\* without line 291; RetryTwice: the one that tries "networkidle" twice;
\* NoFallback: the one that gives up after the first attempt)
StrategyFailedNoClose(q, step) ==
  IF q.waitUntil = "load"
  THEN StartStrategy([q EXCEPT !.fail1 = step], "networkidle")
  ELSE Respond([q EXCEPT !.pending = 500, !.fail2 = step], 500,
               [kind |-> "An error occurred while fetching the page."])
StrategyFailedRetryTwice(q, step) ==
  IF q.waitUntil = "load"
  THEN StartStrategy([q EXCEPT !.fail1 = step], "networkidle")
  ELSE IF Len(q.navs) < 3
  THEN StartStrategy([q EXCEPT !.fail2 = step], "networkidle")
  ELSE [q EXCEPT !.pc = "close", !.pending = 500, !.fail2 = step]
StrategyFailedNoFallback(q, step) ==
  IF q.waitUntil = "load"
  THEN [q EXCEPT !.pc = "close", !.pending = 500, !.fail1 = step]
  ELSE [q EXCEPT !.pc = "close", !.pending = 500, !.fail2 = step]
StrategyFailed(q, step) ==
  IF q.waitUntil = "load"
  THEN StartStrategy([q EXCEPT !.fail1 = step], "networkidle")
  ELSE [q EXCEPT !.pc = "close", !.pending = 500, !.fail2 = step]

ReqFrame == UNCHANGED << BLOCK_MEDIA, routed, browser, context, browserInitialized,
                         browserInitError, initializationInProgress, init, launchCount,
                         ctxEng, openEngines, openContexts, mediaRouted, allRouted,
                         listening, probe, sd >>

\* line 273 settles
NewPageDone(r) ==
  /\ Running /\ req[r].pc = "newPage"
  /\ \/ /\ req[r].pageCtx \in openContexts
        /\ req' = [req EXCEPT ![r] =
                  LET q == [req[r] EXCEPT !.page = "open"]
                  IN  IF q.headers THEN [q EXCEPT !.pc = "setHeaders"]
                      ELSE StartStrategy(q, "load")]
     \/ req' = [req EXCEPT ![r] = Reject(req[r], "newPage")]
  /\ ReqFrame

\* line 277 settles
SetHeadersDone(r) ==
  /\ Running /\ req[r].pc = "setHeaders"
  /\ \/ /\ req[r].page = "open"
        /\ req' = [req EXCEPT ![r] = StartStrategy(req[r], "load")]
     \/ req' = [req EXCEPT ![r] = Reject(req[r], "setExtraHTTPHeaders")]
  /\ ReqFrame

\* lines 156-164 once the navigation and the pause are over
AfterWait(q) == [q EXCEPT !.pc = IF q.selector THEN "selector" ELSE "extract"]

\* line 150 settles: it resolves or rejects.  Whether it resolved with a
\* response or with null is read at lines 165 and 175 only, and chosen there.  The
\* pause of lines 152-154 (wait_after_load > 0) belongs to this step: it reads
\* and writes nothing the model holds, and its rejection is the step's
GotoDone(r) ==
  /\ Running /\ req[r].pc = "goto"
  /\ \/ /\ req[r].page = "open"
        /\ req' = [req EXCEPT ![r] = AfterWait(req[r])]
     \/ req' = [req EXCEPT ![r] = StrategyFailed(req[r], "goto")]
  /\ ReqFrame

\* line 158 settles: the element was found, or lines 159-161 throw
SelectorDone(r) ==
  /\ Running /\ req[r].pc = "selector"
  /\ \/ /\ req[r].page = "open"
        /\ req' = [req EXCEPT ![r].pc = "extract"]
     \/ req' = [req EXCEPT ![r] = StrategyFailed(req[r], "selector")]
  /\ ReqFrame

\* response ? response.status() : null (line 175)
NullStatus == 0

\* helpers/get_error: the advisory category of a status other than 200
getError(status) ==
  IF status = NullStatus THEN "No response received"
  ELSE IF status >= 500 THEN "Server Error"
  ELSE IF status >= 400 THEN "Client Error"
  ELSE IF status >= 300 THEN "Redirect"
  ELSE "Unknown Error"

\* what `response ? response.status() : null` can be
Statuses == {NullStatus, 200, 404}

\* lines 164-177: what scrapePage returns: the content this attempt read (the
\* rendered document or, by content-type, the response body) and the status
ScrapeResult(q, status) ==
  [kind |-> "result", content |-> << "content of", q.waitUntil >>, status |-> status]

\* lines 296-310: the body of the 200 response (AlwaysError: the faulty
\* variant that classifies every status, 200 included)
SuccessBodyAlwaysError(result) ==
  [kind |-> "scraped", content |-> result.content, pageStatusCode |-> result.status,
   pageError |-> getError(result.status)]
SuccessBody(result) ==
  LET pageError == IF result.status # 200 THEN getError(result.status) ELSE "undefined"
  IN  [kind |-> "scraped", content |-> result.content, pageStatusCode |-> result.status,
       pageError |-> pageError]

\* lines 164-170 settle (page.content(), response.allHeaders(), response.body():
\* three awaits in a row that touch nothing but this request, taken as one
\* step), then lines 296-304 run up to `await page.close()`
ExtractDone(r) ==
  /\ Running /\ req[r].pc = "extract"
  /\ \/ \E status \in Statuses :
          /\ req[r].page = "open"
          /\ req' = [req EXCEPT ![r].result = ScrapeResult(req[r], status),
                                ![r].pc = "close", ![r].pending = 200]
     \/ req' = [req EXCEPT ![r] = StrategyFailed(req[r], "extract")]
  /\ ReqFrame

\* line 291 or line 304 settles, then the response is written
CloseDone(r) ==
  /\ Running /\ req[r].pc = "close"
  /\ \/ req' = [req EXCEPT ![r] =
                  LET q == [req[r] EXCEPT !.page = "closed"]
                  IN  IF q.pending = 500
                      THEN Respond(q, 500, [kind |-> "An error occurred while fetching the page."])
                      ELSE Respond(q, 200, SuccessBody(q.result))]
     \/ req' = [req EXCEPT ![r] = Reject(req[r], "close")]
  /\ ReqFrame

\* ---------------------------------------------------------------- shutdown
\* closing a context closes its pages
PagesAfterClose(ctxs) ==
  [r \in Reqs |-> IF req[r].page = "open" /\ req[r].pageCtx \in ctxs
                  THEN [req[r] EXCEPT !.page = "closed"] ELSE req[r]]

ContextsOf(eng) == { c \in 1..Len(ctxEng) : ctxEng[c] = eng }

\* lines 319-320, 130-135: SIGINT; shutdownBrowser runs to its first await
SigInt ==
  /\ sd.pc \in {"idle", "rejected"}
  /\ sd' = [pc |-> IF context # 0 THEN "closeContext"
                   ELSE IF browser # 0 THEN "closeBrowser" ELSE "exited",
            ctx |-> context, eng |-> browser,
            ctxCloseFailed |-> FALSE,
            browserCloseCalled |-> (context = 0 /\ browser # 0)]
  /\ UNCHANGED << BLOCK_MEDIA, routed, browser, context, browserInitialized, browserInitError,
                  initializationInProgress, init, launchCount, ctxEng, openEngines,
                  openContexts, mediaRouted, allRouted, listening, probe, req >>

\* line 132 settles
ContextCloseDone ==
  /\ sd.pc = "closeContext"
  /\ \/ /\ openContexts' = openContexts \ {sd.ctx}
        /\ req' = PagesAfterClose({sd.ctx})
        /\ sd' = [sd EXCEPT !.pc = IF browser # 0 THEN "closeBrowser" ELSE "exited",
                            !.eng = browser, !.browserCloseCalled = (browser # 0)]
     \/ /\ sd' = [sd EXCEPT !.pc = "rejected", !.ctxCloseFailed = TRUE]
        /\ UNCHANGED << openContexts, req >>
  /\ UNCHANGED << BLOCK_MEDIA, routed, browser, context, browserInitialized, browserInitError,
                  initializationInProgress, init, launchCount, ctxEng, openEngines,
                  mediaRouted, allRouted, listening, probe >>

\* line 135 settles; then lines 321-322: process.exit(0)
BrowserCloseDone ==
  /\ sd.pc = "closeBrowser"
  /\ \/ /\ openEngines' = openEngines \ {sd.eng}
        /\ openContexts' = openContexts \ ContextsOf(sd.eng)
        /\ req' = PagesAfterClose(ContextsOf(sd.eng))
        /\ sd' = [sd EXCEPT !.pc = "exited"]
     \/ /\ sd' = [sd EXCEPT !.pc = "rejected"]
        /\ UNCHANGED << openEngines, openContexts, req >>
  /\ UNCHANGED << BLOCK_MEDIA, routed, browser, context, browserInitialized, browserInitError,
                  initializationInProgress, init, launchCount, ctxEng,
                  mediaRouted, allRouted, listening, probe >>

\* ------------------------------------------------- request interception
\* line 102: the extensions of the media glob
MediaExtensions == { "png", "jpg", "jpeg", "gif", "svg", "mp3", "mp4", "avi", "flac",
                     "ogg", "wav", "webm" }

\* lines 21-35
AD_SERVING_DOMAINS == { "doubleclick.net", "adservice.google.com", "googlesyndication.com",
                        "googletagservices.com", "googletagmanager.com",
                        "google-analytics.com", "adsystem.com", "adservice.com",
                        "adnxs.com", "ads-twitter.com", "facebook.net", "fbcdn.net",
                        "amazon-adsystem.com" }

\* the requests a page makes: a hostname, written as the sequence of its
\* pieces so that a deny-list entry occurring in it is one piece, and the
\* extension the url ends with
Hosts == { << "example.com" >>, << "fbcdn.net" >>, << "ad.", "doubleclick.net" >>,
           << "cdn.", "adsystem.com", ".example.org" >> }
Extensions == { "png", "webm", "js", "html" }

\* line 113: hostname.includes(domain)
Includes(hostname, domain) == \E i \in DOMAIN hostname : hostname[i] = domain

\* lines 102, 108: the handlers of a context in the order of their registration
Handlers(ctx) ==
  (IF ctx \in mediaRouted THEN << "media" >> ELSE <<>>)
    \o (IF ctx \in allRouted THEN << "all" >> ELSE <<>>)

\* lines 102, 108: the globs
HandlerMatches(handler, host, ext) ==
  IF handler = "media" THEN ext \in MediaExtensions ELSE TRUE

\* lines 103 and 109-116: what a handler does with the request it is given;
\* neither handler calls route.fallback()
HandlerDecision(handler, host, ext) ==
  IF handler = "media" THEN "abort"
  ELSE IF \E domain \in AD_SERVING_DOMAINS : Includes(host, domain)
       THEN "abort"
       ELSE "continue"

\* context.route: the matching handlers run in the order opposite to their
\* registration, and one that calls route.abort() or route.continue() settles
\* the request; a request no handler matches is continued
EffectiveDecision(handlers, host, ext) ==
  LET matching == { i \in DOMAIN handlers : HandlerMatches(handlers[i], host, ext) }
  IN  IF matching = {} THEN "continue"
      ELSE HandlerDecision(handlers[CHOOSE i \in matching : \A j \in matching : j <= i],
                           host, ext)

\* a page that is navigating requests a resource
SubRequest(r, host, ext) ==
  /\ Running
  /\ req[r].pc = "goto" /\ req[r].page = "open"
  /\ req[r].pageCtx \in openContexts
  /\ routed' = [ctx |-> req[r].pageCtx, host |-> host, ext |-> ext,
                decision |-> EffectiveDecision(Handlers(req[r].pageCtx), host, ext)]
  /\ UNCHANGED << BLOCK_MEDIA, session, engine, init, listening, probe, req, sd >>

\* ------------------------------------------------------------ specification
Next ==
  \/ Listen
  \/ Readiness
  \/ \E c \in Callers : LaunchDone(c)
  \/ \E c \in Callers : NewContextDone(c)
  \/ \E c \in Callers : RouteMediaDone(c)
  \/ \E c \in Callers : RouteAllDone(c)
  \/ \E r \in Reqs, url \in Urls, headers \in BOOLEAN, selector \in BOOLEAN :
       ScrapeReceive(r, url, headers, selector)
  \/ \E r \in Reqs : NewPageDone(r)
  \/ \E r \in Reqs : SetHeadersDone(r)
  \/ \E r \in Reqs : GotoDone(r)
  \/ \E r \in Reqs : SelectorDone(r)
  \/ \E r \in Reqs : ExtractDone(r)
  \/ \E r \in Reqs : CloseDone(r)

\* the service in operation: no termination signal arrives
Spec == Init /\ [][Next]_vars

\* the service with SIGINT arriving at any moment
NextSigInt ==
  \/ Next
  \/ SigInt
  \/ ContextCloseDone
  \/ BrowserCloseDone

SpecSigInt == Init /\ [][NextSigInt]_vars

\* the service in operation, with the requests its pages make
NextPolicy ==
  \/ Next
  \/ \E r \in Reqs, host \in Hosts, ext \in Extensions : SubRequest(r, host, ext)

SpecPolicy == Init /\ [][NextPolicy]_vars

\* ------------------------------------------------------------------ claims
InFlightPcs == {"launch", "newContext", "routeMedia", "routeAll"}
InFlight == { c \in Callers : init[c].pc \in InFlightPcs }
Launching == { c \in Callers : init[c].pc = "launch" }

\* some caller made an initializeBrowser() call in this step
InitCalled == \E c \in Callers : init'[c].calls > init[c].calls

\* C1: at most one initialization, hence at most one engine launch, is in
\* progress at any time, and a call of initializeBrowser() made while one is in
\* flight launches nothing: the launches stay at the one of the call in flight.
C1_SingleFlight ==
  /\ [](Cardinality(InFlight) <= 1 /\ Cardinality(Launching) <= 1)
  /\ [][(initializationInProgress /\ InitCalled) =>
          /\ launchCount' = launchCount
          /\ InFlight' = InFlight
          /\ \A c \in Callers : init'[c].calls > init[c].calls => init'[c].pc = "skipped"]_vars

\* every /scrape request has called initializeBrowser() while the call of the
\* listen callback was launching the engine: one launch in all
C1_Witness ==
  /\ init[ListenCaller].pc = "launch"
  /\ \A r \in Reqs : init[r].pc = "skipped"
  /\ launchCount = 1

\* C2: once a request is over (answered, or ended by a failure of
\* setExtraHTTPHeaders on its new page) no page created for it is open.
C2_PageClosedOnEveryExit ==
  \A r \in Reqs :
    (req[r].pc = "done" \/ (req[r].pc = "rejected" /\ req[r].at = "setExtraHTTPHeaders"))
      => req[r].page # "open"

\* C3 as stated: a request whose selector was not found after the successful
\* "load" navigation never ends with 200, and its page is closed.
C3_SelectorFailureFailsRequest ==
  \A r \in Reqs :
    (req[r].fail1 = "selector" /\ req[r].pc = "done")
      => (req[r].code # 200 /\ req[r].page = "closed")

\* C3 amended: a selector that is not found after the successful "load"
\* navigation sends the request to the "networkidle" attempt; the request is
\* answered 500 exactly when that second attempt fails too (so always when the
\* selector is again not found) and 200, with the second attempt's content,
\* when it succeeds; an answered request has its page closed.
C3_SelectorFailureFallsBack ==
  \A r \in Reqs :
    req[r].fail1 = "selector" =>
      /\ req[r].navs = << "load", "networkidle" >>
      /\ req[r].pc = "done" =>
           /\ req[r].page = "closed"
           /\ req[r].code \in {200, 500}
           /\ req[r].code = 500 <=> req[r].fail2 # "none"
           /\ req[r].code = 200 =>
                req[r].body.content = << "content of", "networkidle" >>

\* the selector was not found in either attempt and the request was answered
C3_Witness ==
  \E r \in Reqs :
    /\ req[r].fail1 = "selector" /\ req[r].fail2 = "selector"
    /\ req[r].pc = "done" /\ req[r].code = 500

\* C4 as stated: at most two navigations, "load" first, and the "networkidle"
\* one only when the "load" navigation itself errored; after a failed fallback
\* the request ends with 500.
C4_FallbackOnNavigationErrorOnly ==
  \A r \in Reqs :
    /\ Len(req[r].navs) <= 2
    /\ req[r].navs # <<>> => req[r].navs[1] = "load"
    /\ Len(req[r].navs) = 2 => (req[r].navs[2] = "networkidle" /\ req[r].fail1 = "goto")
    /\ (req[r].fail2 # "none" /\ req[r].pc = "done") => req[r].code = 500

\* C4 amended: at most two navigations, "load" first; the "networkidle" one
\* happens once, exactly when the first scrapePage attempt failed at any of its
\* steps (navigation, selector wait, extraction); after a failed fallback no
\* navigation follows and 500 is the only answer the request can get.
C4_FallbackOnAnyFailure ==
  \A r \in Reqs :
    /\ Len(req[r].navs) <= 2
    /\ req[r].navs # <<>> => req[r].navs[1] = "load"
    /\ Len(req[r].navs) = 2 <=> req[r].fail1 # "none"
    /\ Len(req[r].navs) = 2 => req[r].navs[2] = "networkidle"
    /\ req[r].fail2 # "none" =>
         /\ req[r].pc \in {"close", "done", "rejected"}
         /\ req[r].pending = 500
         /\ req[r].code \in {0, 500}
         /\ req[r].pc = "done" => req[r].code = 500

\* both navigations errored and the request was answered 500
C4_Witness ==
  \E r \in Reqs :
    /\ req[r].fail1 = "goto" /\ req[r].fail2 = "goto"
    /\ req[r].pc = "done" /\ req[r].code = 500

\* C5: what a readiness probe answers matches what it read: 200 'ready' iff
\* browserInitialized; 503 'initialization in progress' iff an initialization
\* is in flight; 503 with the recorded error iff an error is recorded.  The
\* same holds of the answer a probe would get in the current state.
AnswerMatches(a, f) ==
  /\ (a.code = 200 /\ a.text = "ready") <=> f.initialized
  /\ (a.code = 503 /\ a.text = "Browser initialization in progress") <=> f.inProgress
  /\ (a.code = 503 /\ a.text \in InitErrors /\ a.text = f.error) <=> f.error # NoError

C5_ReadinessMatchesState ==
  /\ probe # NoProbe => AnswerMatches(probe, probe.saw)
  /\ AnswerMatches(ReadinessAnswer(Flags), Flags)

\* a probe was answered 'in progress' during a retry after a failed attempt
C5_Witness ==
  /\ probe.text = "Browser initialization in progress"
  /\ probe.saw.inProgress /\ launchCount >= 2

\* the session state, read off the flags
StateOf(f) ==
  IF f.initialized THEN "Ready"
  ELSE IF f.inProgress THEN "Initializing"
  ELSE IF f.error # NoError THEN "Failed"
  ELSE "Uninitialized"

\* a readiness probe is answered in this step (its answer differs from the
\* last one), or a /scrape request with a well-formed url arrives
ProbeAnswered == probe' # probe
ScrapeArrives(r) ==
  /\ req[r].pc = "idle" /\ req'[r].pc # "idle"
  /\ req'[r].url = << "w", "s", ":", "/", "/", "s" >>

\* C6: in the Failed state the next readiness probe, and likewise the next
\* scrape request, starts a re-initialization; and no caller makes more than
\* one initializeBrowser() call.
C6_FailedRetriesOnNextRequest ==
  /\ [][(StateOf(Flags) = "Failed" /\ (ProbeAnswered \/ \E r \in Reqs : ScrapeArrives(r)))
          => (initializationInProgress' /\ launchCount' = launchCount + 1)]_vars
  /\ [](\A c \in Callers : init[c].calls <= 1)

\* C7: when a shutdownBrowser() call is over (it returned, or it threw) and
\* there was an engine to close, browser.close() has been called on it,
\* whether or not closing the context failed.
C7_ShutdownClosesBoth ==
  (sd.pc \in {"exited", "rejected"} /\ sd.eng # 0) => sd.browserCloseCalled

\* an initializeBrowser() call of caller c that was in flight is over
Completes(c) == init[c].pc \in InFlightPcs /\ init'[c].pc = "done"

\* C8: initializeBrowser() never throws: whichever step fails, the call
\* returns, the flag of the call in flight is cleared and the state is Ready
\* with no error or not-Ready with the error of the failed step recorded.
C8_InitializeNeverThrows ==
  /\ [](\A c \in Callers : init[c].outcome # "threw")
  /\ [][\A c \in Callers : Completes(c) =>
          /\ init'[c].outcome = "returned"
          /\ ~initializationInProgress'
          /\ \/ browserInitialized' /\ browserInitError' = NoError
             \/ ~browserInitialized' /\ browserInitError' \in InitErrors
          /\ init[c].pc = "launch" =>
               (~browserInitialized' /\ browserInitError' = "launch failed")
          /\ (init[c].pc \in {"newContext", "routeMedia"}) =>
               (~browserInitialized' /\ browserInitError' = "setup failed")
          /\ init[c].ctx \notin allRouted' => ~browserInitialized']_vars

\* a call failed after the engine launch and returned with the error recorded
C8_Witness ==
  \E c \in Callers :
    /\ init[c].pc = "done" /\ init[c].outcome = "returned"
    /\ browserInitError = "setup failed"
    /\ ~browserInitialized /\ ~initializationInProgress

AllowedTransitions ==
  { << "Uninitialized", "Initializing" >>, << "Initializing", "Ready" >>,
    << "Initializing", "Failed" >>, << "Failed", "Initializing" >> }
FlagsNext == [initialized |-> browserInitialized', error |-> browserInitError',
              inProgress |-> initializationInProgress']

\* C9: under probes, scrape requests and initializeBrowser() calls the state
\* moves only Uninitialized -> Initializing -> Ready | Failed and
\* Failed -> Initializing; from Ready nothing changes: browserInitialized stays
\* true, no initialization is started and no engine is launched.
C9_ForwardOnly ==
  [][/\ StateOf(FlagsNext) # StateOf(Flags) =>
          << StateOf(Flags), StateOf(FlagsNext) >> \in AllowedTransitions
     /\ browserInitialized =>
          /\ browserInitialized'
          /\ ~initializationInProgress'
          /\ browserInitError' = NoError
          /\ launchCount' = launchCount
          /\ ~InitCalled]_vars

\* Ready was reached by a retry after a failure; since then a probe was
\* answered 200 and a scrape request was served
C9_Witness ==
  /\ browserInitialized /\ launchCount >= 2
  /\ probe.code = 200
  /\ \E r \in Reqs : req[r].pc = "done" /\ req[r].code = 200

\* url values that are missing or that `new URL` rejects
BadUrls == { NoUrl, EmptyUrl, << "/", "s" >>, << "1", ":", "s" >>,
             << "w", "s", ":", "/", "/" >> }

\* C10: a request whose url is missing or is no absolute URL is answered 400
\* in the run that receives it, has made no initializeBrowser() call and has
\* acquired no page; and the step that receives it leaves the session as it was.
C10_BadUrlLeavesSession ==
  /\ [](\A r \in Reqs : (req[r].pc # "idle" /\ req[r].url \in BadUrls) =>
          /\ req[r].pc = "done" /\ req[r].code = 400 /\ req[r].responses = 1
          /\ init[r].calls = 0
          /\ req[r].page = "none" /\ req[r].pageCtx = 0)
  /\ [][\A r \in Reqs : (req[r].pc = "idle" /\ req'[r].pc # "idle" /\ req'[r].url \in BadUrls)
          => UNCHANGED << session, engine, init >>]_vars

\* a request with the hostless url "ws://" was answered 400 while the session
\* was not Ready
C10_Witness ==
  \E r \in Reqs :
    /\ req[r].url = << "w", "s", ":", "/", "/" >> /\ req[r].code = 400
    /\ ~browserInitialized


\* the pipeline states of a request: it has called context.newPage()
Acquiring(r) == req[r].pageCtx # 0

\* C11: a request calls context.newPage() only while browserInitialized, and
\* the context it is called on has the handlers of lines 102 (when BLOCK_MEDIA)
\* and 108 installed: every page, hence every navigation, is on a context with
\* the interception handlers in place.
C11_PagesOnlyOnRoutedContext ==
  /\ browserInitialized =>
       (context \in allRouted /\ (BLOCK_MEDIA => context \in mediaRouted))
  /\ \A r \in Reqs : Acquiring(r) =>
       /\ browserInitialized
       /\ req[r].pageCtx = context
       /\ req[r].pageCtx \in allRouted
       /\ BLOCK_MEDIA => req[r].pageCtx \in mediaRouted

\* a request navigated although a failed initialization had left behind a
\* context without the handlers
C11_Witness ==
  \E r \in Reqs :
    /\ req[r].navs # <<>>
    /\ openContexts \ allRouted # {}

\* C12: when the "load" attempt failed and the "networkidle" attempt
\* succeeded, the answer pending and the answer given are the 200 response
\* with the content and status the networkidle attempt returned.
C12_FallbackContentReturned ==
  \A r \in Reqs :
    (req[r].fail1 # "none" /\ req[r].fail2 = "none" /\ req[r].pc \in {"close", "done"}) =>
      /\ req[r].pending = 200
      /\ req[r].result.content = << "content of", "networkidle" >>
      /\ req[r].pc = "done" =>
           /\ req[r].code = 200
           /\ req[r].body.kind = "scraped"
           /\ req[r].body.content = << "content of", "networkidle" >>
           /\ req[r].body.pageStatusCode = req[r].result.status

\* the "load" navigation errored, the fallback succeeded, 200 was answered
C12_Witness ==
  \E r \in Reqs :
    /\ req[r].fail1 = "goto" /\ req[r].fail2 = "none"
    /\ req[r].pc = "done" /\ req[r].code = 200
    /\ req[r].body.content = << "content of", "networkidle" >>

ServiceErrors == { "URL is required", "Invalid URL", "Browser initialization failed",
                   "An error occurred while fetching the page." }

\* C13: a completed fetch is answered 200 whatever the target's status:
\* pageStatusCode is that status, pageError is absent for 200 and present
\* otherwise; a 400 or 500 answer comes from url validation, the session or
\* the failure of both attempts only.
C13_TargetStatusIsNotServiceStatus ==
  \A r \in Reqs : req[r].pc = "done" =>
    /\ req[r].result.kind = "result" =>
         /\ req[r].code = 200
         /\ req[r].body.pageStatusCode = req[r].result.status
         /\ req[r].body.pageError = "undefined" <=> req[r].result.status = 200
    /\ req[r].code = 400 => req[r].body.kind \in {"URL is required", "Invalid URL"}
    /\ req[r].code = 500 =>
         /\ req[r].body.kind \in ServiceErrors
         /\ req[r].result.kind = "none"
    /\ req[r].code \in {200, 400, 500}

\* the target answered 404: the service answered 200 with pageStatusCode 404
\* and a pageError
C13_Witness ==
  \E r \in Reqs :
    /\ req[r].pc = "done" /\ req[r].code = 200
    /\ req[r].body.pageStatusCode = 404
    /\ req[r].body.pageError = "Client Error"


\* spec 4.3: the InterceptionPolicy's decision for a request
Reference(blockMedia, host, ext) ==
  IF blockMedia /\ ext \in MediaExtensions THEN "abort"
  ELSE IF \E domain \in AD_SERVING_DOMAINS : Includes(host, domain) THEN "abort"
  ELSE "continue"

\* C14: what the two handlers registered on the context do to a request of a
\* page is the decision of the InterceptionPolicy: abort a media extension when
\* BLOCK_MEDIA, else abort a hostname containing a deny-list entry, else
\* continue.
C14_EffectiveDecisionIsReference ==
  routed # NoRoute =>
    routed.decision = Reference(BLOCK_MEDIA, routed.host, routed.ext)


\* C16: at every moment at most one launched engine process is not closed,
\* in particular after an attempt that failed once chromium.launch() had
\* succeeded and was followed by a retry.
C16_AtMostOneOpenEngine == Cardinality(openEngines) <= 1

\* C17: a request that arrived while the session was not Ready and an
\* initialization was in flight got a no-op from initializeBrowser(), was
\* answered 500 on the re-check of line 259 and never called newPage, whatever
\* the initialization in flight did afterwards.
C17_NoWaitForInFlightInit ==
  \A r \in Reqs : init[r].pc = "skipped" =>
    /\ req[r].pc = "done"
    /\ req[r].code = 500 /\ req[r].responses = 1
    /\ req[r].body = [kind |-> "Browser initialization failed", details |-> "Unknown error"]
    /\ req[r].pageCtx = 0 /\ req[r].page = "none"
    /\ req[r].navs = <<>>

\* such a request holds its 500 although the initialization it met in flight
\* has succeeded since
C17_Witness ==
  \E r \in Reqs :
    /\ init[r].pc = "skipped"
    /\ req[r].code = 500
    /\ browserInitialized /\ ~initializationInProgress

\* C18: once shutdownBrowser has closed the context the flags no longer say
\* Ready: a probe is not answered 200 and no request calls newPage on the
\* closed context.
C18_ShutdownResetsSession ==
  (sd.pc \in {"closeBrowser", "rejected"} /\ sd.ctx # 0 /\ sd.ctx \notin openContexts) =>
    /\ ~browserInitialized
    /\ ReadinessAnswer(Flags).code # 200
    /\ \A r \in Reqs : req[r].pc = "newPage" => req[r].pageCtx # sd.ctx

\* C19: a /scrape handler that has run to its end has written exactly one
\* response, 400, 500 or 200, whichever engine call failed on the way.
C19_ExactlyOneResponse ==
  \A r \in Reqs :
    /\ req[r].responses <= 1
    /\ req[r].pc \in {"done", "rejected"} =>
         (req[r].responses = 1 /\ req[r].code \in {200, 400, 500})

\* C20: the three flags encode one state: browserInitialized, a recorded
\* error and initializationInProgress exclude each other, and from the
\* app.listen callback on one of them is set, so that no probe and no request
\* reads "not initialized, no error, not in progress".
C20_FlagsEncodeOneState ==
  /\ ~(browserInitialized /\ browserInitError # NoError)
  /\ ~(browserInitialized /\ initializationInProgress)
  /\ ~(browserInitError # NoError /\ initializationInProgress)
  /\ listening => StateOf(Flags) # "Uninitialized"
  /\ probe # NoProbe => StateOf(probe.saw) # "Uninitialized"
  /\ \A r \in Reqs : req[r].pc # "idle" => listening

\* a probe read the recorded error of a failed attempt, and a request's
\* retry has since replaced it by Ready
C20_Witness ==
  /\ probe # NoProbe /\ probe.saw.error # NoError
  /\ browserInitialized
  /\ \E r \in Reqs : req[r].pc # "idle"

====
